---- MODULE Spec2Model ----
(***************************************************************************)
(* Pump affinity converter: the three Streamlit scripts app_streamlit.py,   *)
(* app_streamlit1.py and app_streamlit3.py, modelled as one script run per  *)
(* behaviour.  The widget values are fixed at the start of the run and the  *)
(* script's sections are the actions.                                       *)
(*                                                                         *)
(* Numbers.  A Python float is modelled as an exact fraction <<n, d>> in    *)
(* lowest terms with d > 0; the three non-finite floats are <<1, 0>> (inf), *)
(* <<-1, 0>> (-inf) and <<0, 0>> (NaN).  Binary rounding error and overflow *)
(* of float arithmetic are not modelled.                                    *)
(*                                                                         *)
(* Text.  A Python str is a tuple of one-character strings.                 *)
(***************************************************************************)
EXTENDS Integers, Sequences, FiniteSets, TLC

\* ------------------------------------------------------------------------
\* Float arithmetic
\* ------------------------------------------------------------------------
Abs(x) == IF x < 0 THEN -x ELSE x

Sgn(x) == IF x < 0 THEN -1 ELSE IF x > 0 THEN 1 ELSE 0

RECURSIVE GCD(_, _)
GCD(a, b) == IF b = 0 THEN a ELSE GCD(b, a % b)

Norm(n, d) ==
  IF d = 0 THEN <<Sgn(n), 0>>
  ELSE LET g == GCD(Abs(n), Abs(d))
           s == IF d < 0 THEN -1 ELSE 1
       IN  <<(s * n) \div g, (s * d) \div g>>

NaN == <<0, 0>>
PosInf == <<1, 0>>
NegInf == <<-1, 0>>

F(n) == <<n, 1>>

IsFinite(a) == a[2] # 0

IsNaN(a) == a = NaN

\* a * b
FMul(a, b) ==
  IF a[2] = 0 \/ b[2] = 0 THEN <<Sgn(a[1]) * Sgn(b[1]), 0>>
  ELSE LET g1 == GCD(Abs(a[1]), b[2])
           g2 == GCD(Abs(b[1]), a[2])
       IN  Norm((a[1] \div g1) * (b[1] \div g2), (a[2] \div g2) * (b[2] \div g1))

FRecipGuarded(b) == IF b[1] = 0 THEN F(0) ELSE Norm(b[2], b[1])

\* 1 / b; a float division by zero yields inf, it does not raise
FRecip(b) == Norm(b[2], b[1])

\* a / b on pandas Series and on numpy floats
FDiv(a, b) == FMul(a, FRecip(b))

\* a <= 0 (False for NaN)
FLeZero(a) == \/ IsFinite(a) /\ a[1] <= 0
              \/ a = NegInf

FGtZero(a) == \/ IsFinite(a) /\ a[1] > 0
              \/ a = PosInf

FIsZero(a) == IsFinite(a) /\ a[1] = 0

RECURSIVE Pow10(_)
Pow10(k) == IF k = 0 THEN 1 ELSE 10 * Pow10(k - 1)

\* <<q, r>> with rem * 10^k = q * d + r and 0 <= r < d, digit by digit
RECURSIVE LongDiv(_, _, _)
LongDiv(rem, d, k) ==
  IF k = 0 THEN <<0, rem>>
  ELSE LET p == LongDiv(rem, d, k - 1)
       IN  <<10 * p[1] + ((10 * p[2]) \div d), (10 * p[2]) % d>>

\* numpy round to dec decimals: round half to even, non-finite unchanged
FRound(a, dec) ==
  IF ~IsFinite(a) THEN a
  ELSE IF Pow10(dec) % a[2] = 0 THEN a
  ELSE LET ip == a[1] \div a[2]
           qr == LongDiv(a[1] % a[2], a[2], dec)
           fl == ip * Pow10(dec) + qr[1]
           r2 == 2 * qr[2]
           m  == IF r2 > a[2] THEN fl + 1
                 ELSE IF r2 < a[2] THEN fl
                 ELSE IF fl % 2 = 0 THEN fl ELSE fl + 1
       IN  Norm(m, Pow10(dec))

\* ------------------------------------------------------------------------
\* Text: str methods and the float() / int() conversions
\* ------------------------------------------------------------------------
DigitChars == <<"0", "1", "2", "3", "4", "5", "6", "7", "8", "9">>

UpperChars == <<"A", "B", "C", "D", "E", "F", "G", "H", "I", "J", "K", "L", "M",
                "N", "O", "P", "Q", "R", "S", "T", "U", "V", "W", "X", "Y", "Z">>

LowerChars == <<"a", "b", "c", "d", "e", "f", "g", "h", "i", "j", "k", "l", "m",
                "n", "o", "p", "q", "r", "s", "t", "u", "v", "w", "x", "y", "z">>

IndexIn(seq, c) == CHOOSE i \in 1..Len(seq) : seq[i] = c

\* c.isdigit()
IsDigit(c) == \E i \in 1..Len(DigitChars) : DigitChars[i] = c

\* c.isalpha()
IsAlpha(c) == \/ \E i \in 1..Len(UpperChars) : UpperChars[i] = c
              \/ \E i \in 1..Len(LowerChars) : LowerChars[i] = c

DigitVal(c) == IndexIn(DigitChars, c) - 1

\* c.upper() of one character
ToUpper(c) ==
  IF \E i \in 1..Len(LowerChars) : LowerChars[i] = c
  THEN UpperChars[IndexIn(LowerChars, c)]
  ELSE c

\* ord(c) - ord('A') of one upper-case letter
OrdMinusA(c) == IndexIn(UpperChars, c) - 1

\* ''.join([c for c in s if c.isalpha()]) and the same with isdigit
AlphaPart(s) == SelectSeq(s, IsAlpha)

DigitPart(s) == SelectSeq(s, IsDigit)

RECURSIVE DigitsValue(_)
DigitsValue(s) ==
  IF Len(s) = 0 THEN 0
  ELSE 10 * DigitsValue(SubSeq(s, 1, Len(s) - 1)) + DigitVal(s[Len(s)])

\* int(s) of a string of digits: ValueError on the empty string
IntRaises(s) == Len(s) = 0 \/ \E i \in 1..Len(s) : ~IsDigit(s[i])

RECURSIVE Strip(_)
Strip(s) ==
  IF Len(s) = 0 THEN s
  ELSE IF s[1] = " " THEN Strip(Tail(s))
  ELSE IF s[Len(s)] = " " THEN Strip(SubSeq(s, 1, Len(s) - 1))
  ELSE s

\* s.split(","): always at least one field
RECURSIVE Split(_)
Split(s) ==
  IF \A i \in 1..Len(s) : s[i] # ","
  THEN <<s>>
  ELSE LET k == CHOOSE i \in 1..Len(s) :
                  s[i] = "," /\ \A j \in 1..(i - 1) : s[j] # ","
       IN  <<SubSeq(s, 1, k - 1)>> \o Split(SubSeq(s, k + 1, Len(s)))

\* float(s) on the decimal notation [sign] digits [ . digits ]; the exponent
\* notation and the words inf / nan are not in the input alphabet.
Unsigned(s) ==
  IF Len(s) > 0 /\ (s[1] = "-" \/ s[1] = "+") THEN Tail(s) ELSE s

FloatRaises(s) ==
  LET t == Unsigned(Strip(s))
      dots == {i \in 1..Len(t) : t[i] = "."}
  IN  \/ Cardinality(dots) > 1
      \/ \E i \in 1..Len(t) : ~IsDigit(t[i]) /\ t[i] # "."
      \/ Len(DigitPart(t)) = 0

FloatValue(s) ==
  LET u == Strip(s)
      t == Unsigned(u)
      neg == Len(u) > 0 /\ u[1] = "-"
      dots == {i \in 1..Len(t) : t[i] = "."}
      frac == IF dots = {} THEN 0 ELSE Len(t) - (CHOOSE i \in dots : TRUE)
      mag == DigitsValue(DigitPart(t))
  IN  Norm(IF neg THEN -mag ELSE mag, Pow10(frac))

\* ------------------------------------------------------------------------
\* The uploaded sheet, as pd.read_excel(..., header=None) returns it: a
\* sequence of rows of equal width; row r, column c (0-based) is
\* df_raw[r + 1][c + 1].
\* ------------------------------------------------------------------------
Blank == [k |-> "blank", v |-> NaN, s |-> <<>>]

Num(x) == [k |-> "num", v |-> x, s |-> <<>>]

Text(t) == [k |-> "text", v |-> NaN, s |-> t]

\* pd.isna(val)
IsNA(cell) == cell.k = "blank"

\* float(val) and astype(float) on one cell
CellFloatRaises(cell) == cell.k = "text" /\ FloatRaises(cell.s)

CellFloat(cell) ==
  IF cell.k = "num" THEN cell.v
  ELSE IF cell.k = "text" THEN FloatValue(cell.s)
  ELSE NaN

NRows(df_raw) == Len(df_raw)

NCols(df_raw) == IF Len(df_raw) = 0 THEN 0 ELSE Len(df_raw[1])

None == <<>>

Some(x) == <<x>>

Min2(a, b) == IF a < b THEN a ELSE b

Min3(a, b, c) == Min2(a, Min2(b, c))

\* A DataFrame: its columns in order, each a name and a sequence of floats.
\* The name f"Flow_D{D}" is <<"Flow_D", n, d>> for the float D = <<n, d>>.
Col(name, vals) == [name |-> name, vals |-> vals]

DName(prefix, D) == <<prefix, D[1], D[2]>>

HasCol(df, name) == \E i \in 1..Len(df) : df[i].name = name

GetCol(df, name) == df[CHOOSE i \in 1..Len(df) : df[i].name = name].vals

\* df[name] = vals: overwrites the column of that name, else appends one
SetCol(df, name, vals) ==
  IF HasCol(df, name)
  THEN [i \in 1..Len(df) |-> IF df[i].name = name THEN Col(name, vals) ELSE df[i]]
  ELSE Append(df, Col(name, vals))

MapSeq(vals, Op(_)) == [i \in 1..Len(vals) |-> Op(vals[i])]

\* the address part of read_uploaded_excel: the grid position df_raw.iat
\* reads, or None when the try block raises before or in the read
OrigCellPos(df_raw, orig_cell) ==
  LET col_letter == AlphaPart(orig_cell)
      digits == DigitPart(orig_cell)
  IN  IF Len(orig_cell) = 0 THEN None
      ELSE IF IntRaises(digits) THEN None
      ELSE IF Len(col_letter) # 1 THEN None
      ELSE LET col_idx == OrdMinusA(ToUpper(col_letter[1]))
               row_idx == DigitsValue(digits) - 1
           IN  IF col_idx >= NCols(df_raw) THEN None
               ELSE IF row_idx >= NRows(df_raw) \/ row_idx < -NRows(df_raw) THEN None
               ELSE IF row_idx < 0 THEN Some(<<row_idx + NRows(df_raw), col_idx>>)
               ELSE Some(<<row_idx, col_idx>>)

OrigCellValue(df_raw, orig_cell) ==
  LET pos == OrigCellPos(df_raw, orig_cell)
  IN  IF pos = None THEN None
      ELSE LET val == df_raw[pos[1][1] + 1][pos[1][2] + 1]
           IN  IF IsNA(val) THEN None
               ELSE IF CellFloatRaises(val) THEN None
               ELSE Some(CellFloat(val))

\* df_raw.iloc[first:, c] and df_raw.loc[first:last, c], as sequences of cells
ColumnCells(df_raw, c, first, last) ==
  LET hi == Min2(last, NRows(df_raw) - 1)
  IN  [i \in 1..(IF hi < first THEN 0 ELSE hi - first + 1) |-> df_raw[first + i][c + 1]]

\* .dropna(): every blank cell is removed, wherever it stands
DropNA(cells) == SelectSeq(cells, LAMBDA cell : ~IsNA(cell))

AsTypeRaises(cells) == \E i \in 1..Len(cells) : CellFloatRaises(cells[i])

AsTypeFloat(cells) == MapSeq(cells, CellFloat)

\* the auto_detect branch: columns 0..2 from row `first` down
AutoColumn(df_raw, c, first) == DropNA(ColumnCells(df_raw, c, first, NRows(df_raw)))

\* the fixed branch: labels 1..5 of columns 0..2
FixedFirst == 1

FixedLast == 5

FixedColumn(df_raw, c) == ColumnCells(df_raw, c, FixedFirst, FixedLast)

ReadRaises(df_raw, auto_detect) ==
  \/ NCols(df_raw) < 3
  \/ \E c \in 0..2 :
       AsTypeRaises(IF auto_detect THEN AutoColumn(df_raw, c, 1)
                    ELSE FixedColumn(df_raw, c))

Take(vals, n) == SubSeq(vals, 1, n)

ReadFrame(df_raw, auto_detect) ==
  LET col(c) == AsTypeFloat(IF auto_detect THEN AutoColumn(df_raw, c, 1)
                            ELSE FixedColumn(df_raw, c))
      n == Min3(Len(col(0)), Len(col(1)), Len(col(2)))
  IN  << Col(<<"Flow_orig">>, Take(col(0), n)),
         Col(<<"Head_orig">>, Take(col(1), n)),
         Col(<<"Power_orig_kW">>, Take(col(2), n)) >>

\* read_uploaded_excel(file_buffer, auto_detect, orig_cell); orig_cell is
\* None (here <<>>) when the checkbox is off
read_uploaded_excel(df_raw, auto_detect, orig_cell) ==
  [ raised     |-> ReadRaises(df_raw, auto_detect),
    df         |-> IF ReadRaises(df_raw, auto_detect) THEN <<>>
                   ELSE ReadFrame(df_raw, auto_detect),
    pos        |-> OrigCellPos(df_raw, orig_cell),
    orig_value |-> OrigCellValue(df_raw, orig_cell) ]

\* ------------------------------------------------------------------------
\* apply_affinity of app_streamlit.py and app_streamlit1.py (the same code)
\* ------------------------------------------------------------------------
Front(q) == SubSeq(q, 1, Len(q) - 1)

Last(q) == q[Len(q)]

Scale(vals, k) == [i \in 1..Len(vals) |-> FMul(vals[i], k)]

SquareDoubled(r) == FMul(r, F(2))

Square(r) == FMul(r, r)

Cube(r) == FMul(FMul(r, r), r)

\* one pass of the loop body, for the diameter D
AffinityStep(out, D_orig, D) ==
  LET ratio == FDiv(D, D_orig)
      o1 == SetCol(out, DName("Flow_D", D), Scale(GetCol(out, <<"Flow_orig">>), ratio))
      o2 == SetCol(o1, DName("Head_D", D), Scale(GetCol(o1, <<"Head_orig">>), Square(ratio)))
  IN  SetCol(o2, DName("Power_kW_D", D), Scale(GetCol(o2, <<"Power_orig_kW">>), Cube(ratio)))

RECURSIVE apply_affinity(_, _, _)
apply_affinity(df, D_orig, new_dias) ==
  IF Len(new_dias) = 0 THEN df
  ELSE AffinityStep(apply_affinity(df, D_orig, Front(new_dias)), D_orig, Last(new_dias))

\* ------------------------------------------------------------------------
\* app_streamlit3.py: efficiency and its apply_affinity
\* ------------------------------------------------------------------------
EffK == Norm(1409, 10000000)

EfficiencyNoPercent(flows, heads, powers) ==
  [i \in 1..Len(flows) |-> FMul(FDiv(FMul(flows[i], heads[i]), powers[i]), EffK)]

\* (0.0001409 * flow * head / power) * 100, element by element.  The exact
\* product is taken as (flow * head / power) * (0.0001409 * 100): on finite
\* flow and head the value is the same and the intermediate fractions stay
\* small.
Efficiency(flows, heads, powers) ==
  [i \in 1..Len(flows) |->
     FMul(FDiv(FMul(flows[i], heads[i]), powers[i]), FMul(EffK, F(100)))]

AffinityStep3(out, D_orig, D) ==
  LET ratio == FDiv(D, D_orig)
      o1 == SetCol(out, DName("Flow_D", D), Scale(GetCol(out, <<"Flow_input">>), ratio))
      o2 == SetCol(o1, DName("Head_D", D), Scale(GetCol(o1, <<"Head_m">>), Square(ratio)))
      o3 == SetCol(o2, DName("Power_kW_D", D), Scale(GetCol(o2, <<"Power_input_kW">>), Cube(ratio)))
  IN  SetCol(o3, DName("Efficiency_D", D),
             Efficiency(GetCol(o3, DName("Flow_D", D)), GetCol(o3, DName("Head_D", D)),
                        GetCol(o3, DName("Power_kW_D", D))))

RECURSIVE apply_affinity3(_, _, _)
apply_affinity3(df, D_orig, new_dias) ==
  IF Len(new_dias) = 0 THEN df
  ELSE AffinityStep3(apply_affinity3(df, D_orig, Front(new_dias)), D_orig, Last(new_dias))

\* the baseline frame plus its "Efficiency_%" column
WithEfficiency(df) ==
  SetCol(df, <<"Efficiency_%">>,
         Efficiency(GetCol(df, <<"Flow_input">>), GetCol(df, <<"Head_m">>),
                    GetCol(df, <<"Power_input_kW">>)))

\* upload mode: the three columns are read from row 0 down
Read3Raises(df_raw) ==
  \/ NCols(df_raw) < 3
  \/ \E c \in 0..2 : AsTypeRaises(AutoColumn(df_raw, c, 0))

Read3Frame(df_raw) ==
  LET col(c) == AsTypeFloat(AutoColumn(df_raw, c, 0))
      n == Min3(Len(col(0)), Len(col(1)), Len(col(2)))
  IN  WithEfficiency(<< Col(<<"Flow_input">>, Take(col(0), n)),
                        Col(<<"Head_m">>, Take(col(1), n)),
                        Col(<<"Power_input_kW">>, Take(col(2), n)) >>)

\* manual mode: the rows of the form that are not all zero
manual_rows == 5

\* a filter that keeps only the rows without any zero
KeepRowAll(row) == \A j \in 1..3 : ~FIsZero(row[j])

KeepRow(row) == \E j \in 1..3 : ~FIsZero(row[j])

ManualFrame(manual_data) ==
  LET kept == SelectSeq(manual_data, KeepRow)
      field(j) == [i \in 1..Len(kept) |-> kept[i][j]]
  IN  WithEfficiency(<< Col(<<"Flow_input">>, field(1)),
                        Col(<<"Head_m">>, field(2)),
                        Col(<<"Power_input_kW">>, field(3)) >>)

\* ------------------------------------------------------------------------
\* Output workbooks: a sequence of sheets, each a name and a frame
\* ------------------------------------------------------------------------
Sheet(name, table) == [name |-> name, table |-> table]

RoundVals(vals, dec) == [i \in 1..Len(vals) |-> FRound(vals[i], dec)]

\* df.round(decimals)
RoundFrame(df, dec) == [i \in 1..Len(df) |-> Col(df[i].name, RoundVals(df[i].vals, dec))]

\* to_excel(writer, sheet_name=...): a second write to a sheet of the same
\* name lands on the existing sheet
WriteSheet(doc, name, table) ==
  IF \E i \in 1..Len(doc) : doc[i].name = name
  THEN [i \in 1..Len(doc) |-> IF doc[i].name = name THEN Sheet(name, table) ELSE doc[i]]
  ELSE Append(doc, Sheet(name, table))

\* df[cols]: one output column per entry of cols, repeated names included
SelectCols(df, cols) == [i \in 1..Len(cols) |-> Col(cols[i], GetCol(df, cols[i]))]

\* app_streamlit.py, the button branch after apply_affinity
RECURSIVE ColumnOrder(_)
ColumnOrder(new_dias) ==
  IF Len(new_dias) = 0 THEN << <<"Flow_orig">>, <<"Head_orig">>, <<"Power_orig_kW">> >>
  ELSE ColumnOrder(Front(new_dias)) \o
       << DName("Flow_D", Last(new_dias)), DName("Head_D", Last(new_dias)),
          DName("Power_kW_D", Last(new_dias)) >>

AppDecimals == 6

BuildApp(df_out, new_dias) ==
  << Sheet(<<"Sheet1">>, RoundFrame(SelectCols(df_out, ColumnOrder(new_dias)), AppDecimals)) >>

\* app_streamlit1.py build_excel_bytes
PerSheetTable(df_orig, D_orig, D, decimals) ==
  LET ratio == FDiv(D, D_orig)
      t1 == SetCol(df_orig, DName("Flow_D", D),
                   RoundVals(Scale(GetCol(df_orig, <<"Flow_orig">>), ratio), decimals))
      t2 == SetCol(t1, DName("Head_D", D),
                   RoundVals(Scale(GetCol(t1, <<"Head_orig">>), Square(ratio)), decimals))
  IN  SetCol(t2, DName("Power_kW_D", D),
             RoundVals(Scale(GetCol(t2, <<"Power_orig_kW">>), Cube(ratio)), decimals))

\* the sheet name f"D{int(D) if float(D).is_integer() else D}"[:31] is
\* <<"D", n, d>>: equal diameters, and only those, share a sheet name
RECURSIVE PerSheetDoc(_, _, _, _)
PerSheetDoc(df_orig, D_orig, new_dias, decimals) ==
  IF Len(new_dias) = 0
  THEN << Sheet(<<"original">>, RoundFrame(df_orig, decimals)) >>
  ELSE WriteSheet(PerSheetDoc(df_orig, D_orig, Front(new_dias), decimals),
                  DName("D", Last(new_dias)),
                  PerSheetTable(df_orig, D_orig, Last(new_dias), decimals))

build_excel_bytes(df_orig, df_out, D_orig, new_dias, per_sheet, decimals) ==
  IF per_sheet THEN PerSheetDoc(df_orig, D_orig, new_dias, decimals)
  ELSE << Sheet(<<"converted">>, RoundFrame(df_out, decimals)) >>

\* app_streamlit3.py build_excel_bytes
build_excel_bytes3(df_out, decimals) ==
  << Sheet(<<"Results">>, RoundFrame(df_out, decimals)) >>

\* ------------------------------------------------------------------------
\* new_dias = [float(x.strip()) for x in new_dias_input.split(",") if x.strip() != ""]
\* ------------------------------------------------------------------------
DiaFields(text) == SelectSeq(MapSeq(Split(text), Strip), LAMBDA x : Len(x) # 0)

ParseRaises(text) == \E i \in 1..Len(DiaFields(text)) : FloatRaises(DiaFields(text)[i])

ParseDias(text) == MapSeq(DiaFields(text), FloatValue)

\* ------------------------------------------------------------------------
\* One run of a script.  ui holds the widget values of the run:
\*   variant           "app" | "app1" | "app3": which script runs
\*   mode              "upload" | "manual" (st.radio of app_streamlit3.py)
\*   uploaded          None, or Some(df_raw) for the uploaded sheet
\*   auto_read_cell    the "auto-read original OD" checkbox
\*   cell_addr         its cell address text
\*   od_input          st.number_input for the original OD
\*   new_dias_input    the diameters text
\*   detect_range      the "auto-detect" checkbox
\*   export_per_sheet  the "own sheet" checkbox
\*   decimals          the decimals number_input
\*   button            "Generate & Download Excel" pressed
\*   manual_data       the five (flow, head, power) triples of the form
\*   submitted         the form's submit button
\* ------------------------------------------------------------------------
VARIABLES ui, pc, df_in, orig_cell_value, orig_pos, orig_dia, new_dias,
          df_out, charts, doc, msg

vars == <<ui, pc, df_in, orig_cell_value, orig_pos, orig_dia, new_dias,
          df_out, charts, doc, msg>>

MIN_DIAS == 3

MinDiasOne(variant) == 1

\* the least number of diameters each script accepts
MinDias(variant) == IF variant = "app3" THEN 1 ELSE MIN_DIAS

Stop(kind) ==
  /\ pc' = "stopped"
  /\ msg' = kind

\* app_streamlit.py 122-123, app_streamlit1.py 168-169: nothing uploaded
NoUpload ==
  /\ pc = "start"
  /\ ui.variant \in {"app", "app1"}
  /\ ui.uploaded = None
  /\ pc' = "idle"
  /\ msg' = "info"
  /\ UNCHANGED <<ui, df_in, orig_cell_value, orig_pos, orig_dia, new_dias, df_out, charts, doc>>

\* app_streamlit.py 69-78, app_streamlit1.py 100-109
ReadUpload ==
  /\ pc = "start"
  /\ ui.variant \in {"app", "app1"}
  /\ ui.uploaded # None
  /\ LET r == read_uploaded_excel(ui.uploaded[1], ui.detect_range,
                                  IF ui.auto_read_cell THEN ui.cell_addr ELSE <<>>)
     IN  IF r.raised
         THEN /\ Stop("error")
              /\ UNCHANGED <<df_in, orig_cell_value, orig_pos>>
         ELSE /\ df_in' = Some(r.df)
              /\ orig_cell_value' = r.orig_value
              /\ orig_pos' = r.pos
              /\ pc' = "preview"
              /\ UNCHANGED msg
  /\ UNCHANGED <<ui, orig_dia, new_dias, df_out, charts, doc>>

\* app_streamlit.py 80-87, app_streamlit1.py 111-119
ResolveOrigDia ==
  /\ pc = "preview"
  /\ IF ui.auto_read_cell /\ orig_cell_value # None
     THEN /\ orig_dia' = orig_cell_value
          /\ msg' = "success"
     ELSE /\ orig_dia' = Some(ui.od_input)
          /\ msg' = IF ui.auto_read_cell THEN "warning" ELSE msg
  /\ pc' = "parse"
  /\ UNCHANGED <<ui, df_in, orig_cell_value, orig_pos, new_dias, df_out, charts, doc>>

\* app_streamlit.py 89-94, app_streamlit1.py 121-126
ParseNewDias ==
  /\ pc = "parse"
  /\ IF ParseRaises(ui.new_dias_input)
     THEN /\ Stop("error")
          /\ UNCHANGED new_dias
     ELSE /\ new_dias' = Some(ParseDias(ui.new_dias_input))
          /\ pc' = "validate"
          /\ UNCHANGED msg
  /\ UNCHANGED <<ui, df_in, orig_cell_value, orig_pos, orig_dia, df_out, charts, doc>>

\* app_streamlit.py 96-101, app_streamlit1.py 128-134
Validate ==
  /\ pc = "validate"
  /\ IF Len(new_dias[1]) < MinDias(ui.variant) THEN Stop("error")
     ELSE IF orig_dia = None \/ FLeZero(orig_dia[1]) THEN Stop("error")
     ELSE /\ pc' = "ready"
          /\ UNCHANGED msg
  /\ UNCHANGED <<ui, df_in, orig_cell_value, orig_pos, orig_dia, new_dias, df_out, charts, doc>>

\* app_streamlit.py 103: the button is not pressed, the run ends
NoButton ==
  /\ pc = "ready"
  /\ ui.variant = "app"
  /\ ~ui.button
  /\ pc' = "idle"
  /\ UNCHANGED <<ui, df_in, orig_cell_value, orig_pos, orig_dia, new_dias, df_out, charts, doc, msg>>

\* app_streamlit.py 103-104
ConvertApp ==
  /\ pc = "ready"
  /\ ui.variant = "app"
  /\ ui.button
  /\ df_out' = Some(apply_affinity(df_in[1], orig_dia[1], new_dias[1]))
  /\ pc' = "converted"
  /\ UNCHANGED <<ui, df_in, orig_cell_value, orig_pos, orig_dia, new_dias, charts, doc, msg>>

\* app_streamlit.py 105-121
BuildOutputApp ==
  /\ pc = "converted"
  /\ ui.variant = "app"
  /\ doc' = Some(BuildApp(df_out[1], new_dias[1]))
  /\ pc' = "done"
  /\ UNCHANGED <<ui, df_in, orig_cell_value, orig_pos, orig_dia, new_dias, df_out, charts, msg>>

\* app_streamlit1.py 137-155: the conversion and the three preview charts
ConvertApp1 ==
  /\ pc = "ready"
  /\ ui.variant = "app1"
  /\ df_out' = Some(apply_affinity(df_in[1], orig_dia[1], new_dias[1]))
  /\ charts' = 3
  /\ pc' = "converted"
  /\ UNCHANGED <<ui, df_in, orig_cell_value, orig_pos, orig_dia, new_dias, doc, msg>>

\* app_streamlit1.py 158-167
BuildOutputApp1 ==
  /\ pc = "converted"
  /\ ui.variant = "app1"
  /\ IF ui.button
     THEN /\ doc' = Some(build_excel_bytes(df_in[1], df_out[1], orig_dia[1], new_dias[1],
                                           ui.export_per_sheet, ui.decimals))
          /\ msg' = "success"
          /\ pc' = "done"
     ELSE /\ pc' = "idle"
          /\ UNCHANGED <<doc, msg>>
  /\ UNCHANGED <<ui, df_in, orig_cell_value, orig_pos, orig_dia, new_dias, df_out, charts>>

\* app_streamlit3.py 48-52, 127: upload mode without a file
NoUpload3 ==
  /\ pc = "start"
  /\ ui.variant = "app3"
  /\ ui.mode = "upload"
  /\ ui.uploaded = None
  /\ pc' = "idle"
  /\ UNCHANGED <<ui, df_in, orig_cell_value, orig_pos, orig_dia, new_dias, df_out, charts, doc, msg>>

\* app_streamlit3.py 52-76
ReadUpload3 ==
  /\ pc = "start"
  /\ ui.variant = "app3"
  /\ ui.mode = "upload"
  /\ ui.uploaded # None
  /\ IF Read3Raises(ui.uploaded[1])
     THEN /\ Stop("error")
          /\ UNCHANGED df_in
     ELSE /\ df_in' = Some(Read3Frame(ui.uploaded[1]))
          /\ msg' = "success"
          /\ pc' = "check_orig"
  /\ UNCHANGED <<ui, orig_cell_value, orig_pos, orig_dia, new_dias, df_out, charts, doc>>

\* app_streamlit3.py 79-124, 127
ManualEntry ==
  /\ pc = "start"
  /\ ui.variant = "app3"
  /\ ui.mode = "manual"
  /\ IF ui.submitted
     THEN /\ df_in' = Some(ManualFrame(ui.manual_data))
          /\ msg' = "success"
          /\ pc' = "check_orig"
     ELSE /\ pc' = "idle"
          /\ UNCHANGED <<df_in, msg>>
  /\ UNCHANGED <<ui, orig_cell_value, orig_pos, orig_dia, new_dias, df_out, charts, doc>>

\* app_streamlit3.py 128-130
CheckOrigDia3 ==
  /\ pc = "check_orig"
  /\ IF orig_dia = None \/ FLeZero(orig_dia[1]) THEN Stop("warning")
     ELSE /\ pc' = "parse3"
          /\ UNCHANGED msg
  /\ UNCHANGED <<ui, df_in, orig_cell_value, orig_pos, orig_dia, new_dias, df_out, charts, doc>>

\* app_streamlit3.py 132-139
ParseNewDias3 ==
  /\ pc = "parse3"
  /\ IF ParseRaises(ui.new_dias_input)
     THEN /\ Stop("error")
          /\ UNCHANGED new_dias
     ELSE IF Len(ParseDias(ui.new_dias_input)) < MinDias(ui.variant)
     THEN /\ Stop("warning")
          /\ UNCHANGED new_dias
     ELSE /\ new_dias' = Some(ParseDias(ui.new_dias_input))
          /\ pc' = "ready"
          /\ UNCHANGED msg
  /\ UNCHANGED <<ui, df_in, orig_cell_value, orig_pos, orig_dia, df_out, charts, doc>>

\* app_streamlit3.py 141-169: the conversion, the table and three charts
\* for each entry of new_dias
ConvertApp3 ==
  /\ pc = "ready"
  /\ ui.variant = "app3"
  /\ df_out' = Some(apply_affinity3(df_in[1], orig_dia[1], new_dias[1]))
  /\ charts' = 3 * Len(new_dias[1])
  /\ pc' = "converted"
  /\ UNCHANGED <<ui, df_in, orig_cell_value, orig_pos, orig_dia, new_dias, doc, msg>>

\* app_streamlit3.py 172-178
BuildOutputApp3 ==
  /\ pc = "converted"
  /\ ui.variant = "app3"
  /\ doc' = Some(build_excel_bytes3(df_out[1], ui.decimals))
  /\ pc' = "done"
  /\ UNCHANGED <<ui, df_in, orig_cell_value, orig_pos, orig_dia, new_dias, df_out, charts, msg>>

Next ==
  \/ NoUpload
  \/ ReadUpload
  \/ ResolveOrigDia
  \/ ParseNewDias
  \/ Validate
  \/ NoButton
  \/ ConvertApp
  \/ BuildOutputApp
  \/ ConvertApp1
  \/ BuildOutputApp1
  \/ NoUpload3
  \/ ReadUpload3
  \/ ManualEntry
  \/ CheckOrigDia3
  \/ ParseNewDias3
  \/ ConvertApp3
  \/ BuildOutputApp3

\* ------------------------------------------------------------------------
\* The inputs of the runs that are checked
\* ------------------------------------------------------------------------
MaxRows == 5

MaxSamples == 2

Variants == {"app", "app1", "app3"}

\* a float given by its decimal digits: Dec(1234567, 4) is 123.4567
Dec(n, places) == Norm(n, Pow10(places))

UI(variant, mode, uploaded, auto_read_cell, cell_addr, od_input, new_dias_input, detect_range, export_per_sheet, decimals, button, manual_data, submitted) ==
  [ variant |-> variant, mode |-> mode, uploaded |-> uploaded,
    auto_read_cell |-> auto_read_cell, cell_addr |-> cell_addr, od_input |-> od_input,
    new_dias_input |-> new_dias_input, detect_range |-> detect_range,
    export_per_sheet |-> export_per_sheet, decimals |-> decimals, button |-> button,
    manual_data |-> manual_data, submitted |-> submitted ]

ZeroRow == <<F(0), F(0), F(0)>>

EmptyForm == [i \in 1..manual_rows |-> ZeroRow]

TextD1 == <<"D", "1">>

TextDefaultDias == <<"1", "8", "0", ",", "1", "6", "0", ",", "1", "4", "0">>

TextPowersOfTwo == <<"1", "0", "0", ",", "2", "0", "0", ",", "4", "0", "0">>

\* the address texts tried for the original-OD cell
AddrTexts ==
  { <<"D", "1">>,
    <<"B", "1", "0">>,
    <<"1", "D">>,
    <<>>,
    <<"D", "0">>,
    <<"A", "A", "1">>,
    <<"D">>,
    <<"1">>,
    <<"d", "1">>,
    <<"$", "D", "$", "1">>,
    <<"D", "2">>,
    <<"E", "1">>,
    <<"D", "1", "0">>,
    <<"D", "1", "1">>,
    <<"B", "0">> }

\* the diameter texts tried for validation
DiaTexts ==
  { <<"1", "8", "0", ",", "1", "6", "0", ",", "1", "4", "0">>,
    <<"1", "0", "0">>,
    <<>>,
    <<"a", "b", "c">>,
    <<"1", "0", "0", ",", "1", "0", "0", ",", "2", "0", "0">>,
    <<"0", ",", "-", "5", ",", "1", "0">>,
    <<"1", "0", "0", ",", ",", "2", "0", "0">>,
    <<" ", "1", "0", "0", " ", ",", " ", "2", "0", "0", " ", ",", "3", "0", "0", " ">>,
    <<"1", ",", "2">>,
    <<"2", "0", "0", ",", "2", "0", "0", ",", "2", "0", "0">>,
    <<"1", ".", "5", ".", "2", ",", "3", ",", "4">>,
    <<"1", "0", "0", ",", "x", ",", "2", "0", "0">>,
    <<"-", "1", "0", "0">>,
    <<"0">> }

\* the diameter texts tried for the conversion
AffinityTexts ==
  { <<"1", "0", "0">>,
    <<"2", "0", "0">>,
    <<"1", "0", "0", ",", "2", "0", "0", ",", "4", "0", "0">>,
    <<"1", "8", "0", ",", "1", "6", "0", ",", "1", "4", "0">>,
    <<"1", "0", "0", ",", "1", "0", "0", ",", "2", "0", "0">> }

\* row 0 of a sheet: three header cells and the cell D1
HeaderRow(kind, d1) ==
  IF kind = "text" THEN <<Text(<<"Q">>), Text(<<"H">>), Text(<<"P">>), d1>>
  ELSE IF kind = "num" THEN <<Num(F(1)), Num(F(2)), Num(F(3)), d1>>
  ELSE <<Blank, Blank, Blank, d1>>

\* the data cell of row r >= 1, column c: its value names its position
DataCell(r, c) == Num(F(10 * r + c + 1))

Max2(a, b) == IF a > b THEN a ELSE b

\* a sheet whose column c holds lens[c] data cells from row 1 down, with an
\* optional hole <<r, c, cell>> put over one of them
ReadGrid(kind, lens, hole) ==
  LET n == Max2(lens[0], Max2(lens[1], lens[2]))
      cell(r, c) == IF c = 3 THEN Blank
                    ELSE IF hole # None /\ hole[1][1] = r /\ hole[1][2] = c THEN hole[1][3]
                    ELSE IF r <= lens[c] THEN DataCell(r, c)
                    ELSE Blank
  IN  <<HeaderRow(kind, Num(F(200)))>> \o
      [r \in 1..n |-> <<cell(r, 0), cell(r, 1), cell(r, 2), cell(r, 3)>>]

ReadLens ==
  {l \in [0..2 -> 0..MaxRows] :
     \/ \A c \in 0..2 : l[c] >= MaxRows - 2
     \/ l[0] = l[1] /\ l[1] = l[2]}

ReadHoles ==
  {None} \cup {Some(<<r, c, cell>>) : r \in 1..MaxRows, c \in 0..2, cell \in {Blank, Text(<<"x">>)}}

HolesIn(l) == {x \in ReadHoles : x = None \/ x[1][1] <= l[x[1][2]]}

ReadGrids ==
  UNION {{ReadGrid(kind, l, h) : kind \in {"text", "num"}, h \in HolesIn(l)} : l \in ReadLens}
  \cup {<<>>, <<<<Text(<<"Q">>), Text(<<"H">>)>>, <<Num(F(11)), Num(F(12))>>>>}

\* sheets for the address texts: ten rows with 400 in B10 and 100 in D10,
\* two rows with 400 in D2, and three rows without a column D
AddrCell(c) == Num(F(100 * (c + 1)))

TallGrid ==
  <<HeaderRow("text", Num(F(200)))>> \o
  [r \in 1..9 |-> <<AddrCell(0), IF r = 9 THEN Num(F(400)) ELSE AddrCell(1),
                    AddrCell(2), IF r = 9 THEN Num(F(100)) ELSE Blank>>]

ShortGrid == <<HeaderRow("text", Num(F(200))), <<AddrCell(0), AddrCell(1), AddrCell(2), Num(F(400))>>>>

NarrowGrid ==
  <<<<Text(<<"Q">>), Text(<<"H">>), Text(<<"P">>)>>>> \o
  [r \in 1..2 |-> <<AddrCell(0), AddrCell(1), AddrCell(2)>>]

AddrGrids == {TallGrid, ShortGrid, NarrowGrid}

\* a sheet holding the given (flow, head, power) samples: with a header row
\* and d1 in D1 for app_streamlit.py / app_streamlit1.py, bare for
\* app_streamlit3.py
SampleGrid(variant, d1, samples) ==
  IF variant = "app3"
  THEN [i \in 1..Len(samples) |-> <<Num(samples[i][1]), Num(samples[i][2]), Num(samples[i][3])>>]
  ELSE <<HeaderRow("text", d1)>> \o
       [i \in 1..Len(samples) |->
          <<Num(samples[i][1]), Num(samples[i][2]), Num(samples[i][3]), Blank>>]

SamplesOf(variant) ==
  IF variant = "app3"
  THEN { <<F(100), F(20), F(5)>>, <<F(50), F(10), F(0)>>, <<F(0), F(30), F(0)>>,
         <<Dec(125, 1), F(8), Dec(5, 1)>> }
  ELSE { <<F(100), F(20), F(5)>>, <<F(50), F(10), F(0)>>, <<Dec(1234567, 4), Dec(125, 1), F(2)>>,
         <<F(7), F(3), F(1)>> }

SampleSeqs(variant) ==
  UNION {[1..n -> SamplesOf(variant)] : n \in 1..MaxSamples}

TwoSamples == << <<F(100), F(20), F(5)>>, <<F(80), F(25), Dec(45, 1)>> >>

D1Cells == {Num(F(200)), Num(F(0)), Num(F(-5)), Blank, Text(<<"a", "b", "c">>)}

\* st.number_input values for the original OD: at least 0.000001 in
\* app_streamlit.py / app_streamlit1.py, at least 0.0 in app_streamlit3.py
OdInputs(variant) == IF variant = "app3" THEN {F(0), F(200)} ELSE {F(50), F(200)}

\* values of the three st.number_input fields of one form row; the fields
\* have no minimum, so a negative entry is possible
ManualPool == {ZeroRow, <<F(-50), F(10), F(5)>>, <<F(100), F(20), F(5)>>, <<F(50), F(10), F(0)>>, <<F(0), F(0), F(2)>>}

InitRead ==
  \E variant \in Variants, g \in ReadGrids, detect \in BOOLEAN :
    ui = UI(variant, "upload", Some(g), TRUE, TextD1, F(200), TextPowersOfTwo,
            detect, FALSE, 2, TRUE, EmptyForm, FALSE)

InitAddr ==
  \E variant \in {"app", "app1"}, g \in AddrGrids, addr \in AddrTexts, auto \in BOOLEAN :
    ui = UI(variant, "upload", Some(g), auto, addr, F(200), TextPowersOfTwo,
            TRUE, FALSE, 2, TRUE, EmptyForm, FALSE)

InitDias ==
  \E variant \in Variants, d1 \in D1Cells, text \in DiaTexts, per_sheet \in BOOLEAN,
     button \in BOOLEAN :
    \E od \in OdInputs(variant) :
      ui = UI(variant, "upload", Some(SampleGrid(variant, d1, TwoSamples)), TRUE, TextD1, od,
              text, TRUE, per_sheet, 2, button, EmptyForm, FALSE)

InitAffinity ==
  \E variant \in Variants, Do \in {F(100), F(200)}, text \in AffinityTexts,
     per_sheet \in BOOLEAN, decimals \in {0, 2} :
    \E samples \in SampleSeqs(variant) :
      ui = UI(variant, "upload", Some(SampleGrid(variant, Num(Do), samples)), TRUE, TextD1, Do,
              text, TRUE, per_sheet, decimals, TRUE, EmptyForm, FALSE)

InitManual ==
  \E data \in [1..manual_rows -> ManualPool], submitted \in BOOLEAN, od \in OdInputs("app3") :
    ui = UI("app3", "manual", None, TRUE, TextD1, od, <<"1", "0", "0">>,
            TRUE, FALSE, 2, TRUE, data, submitted)

InitNoFile ==
  \E variant \in Variants :
    ui = UI(variant, "upload", None, TRUE, TextD1, F(200), TextDefaultDias,
            TRUE, FALSE, 2, TRUE, EmptyForm, FALSE)

Init ==
  /\ \/ InitRead
     \/ InitAddr
     \/ InitDias
     \/ InitAffinity
     \/ InitManual
     \/ InitNoFile
  /\ pc = "start"
  /\ df_in = None
  /\ orig_cell_value = None
  /\ orig_pos = None
  /\ orig_dia = IF ui.variant = "app3" THEN Some(ui.od_input) ELSE None
  /\ new_dias = None
  /\ df_out = None
  /\ charts = 0
  /\ doc = None
  /\ msg = "none"

Spec == Init /\ [][Next]_vars

TypeOK ==
  /\ pc \in {"start", "preview", "parse", "validate", "check_orig", "parse3", "ready",
             "converted", "done", "idle", "stopped"}
  /\ msg \in {"none", "info", "success", "warning", "error"}

\* ------------------------------------------------------------------------
\* Properties
\* ------------------------------------------------------------------------
FlowName == IF ui.variant = "app3" THEN <<"Flow_input">> ELSE <<"Flow_orig">>

HeadName == IF ui.variant = "app3" THEN <<"Head_m">> ELSE <<"Head_orig">>

PowerName == IF ui.variant = "app3" THEN <<"Power_input_kW">> ELSE <<"Power_orig_kW">>

Converted == df_out # None

NSamples == Len(GetCol(df_in[1], FlowName))

\* the three derived columns of diameter D hold, at every sample index, the
\* baseline value of that index times k1, k2, k3
ScaledBy(D, k1, k2, k3) ==
  /\ HasCol(df_out[1], DName("Flow_D", D))
  /\ HasCol(df_out[1], DName("Head_D", D))
  /\ HasCol(df_out[1], DName("Power_kW_D", D))
  /\ Len(GetCol(df_out[1], DName("Flow_D", D))) = NSamples
  /\ Len(GetCol(df_out[1], DName("Head_D", D))) = NSamples
  /\ Len(GetCol(df_out[1], DName("Power_kW_D", D))) = NSamples
  /\ \A i \in 1..NSamples :
       /\ GetCol(df_out[1], DName("Flow_D", D))[i] = FMul(GetCol(df_in[1], FlowName)[i], k1)
       /\ GetCol(df_out[1], DName("Head_D", D))[i] = FMul(GetCol(df_in[1], HeadName)[i], k2)
       /\ GetCol(df_out[1], DName("Power_kW_D", D))[i] = FMul(GetCol(df_in[1], PowerName)[i], k3)

\* C1: after the conversion, for every target diameter D and every sample
\* index i, flow'[i] = flow[i] * (D/Do), head'[i] = head[i] * (D/Do)^2 and
\* power'[i] = power[i] * (D/Do)^3; for D = Do the factors are 1, 1, 1 and
\* for D = 2 * Do they are 2, 4, 8.
C1_AffinityLaws ==
  Converted =>
    \A k \in 1..Len(new_dias[1]) :
      LET D == new_dias[1][k]
          r == FDiv(D, orig_dia[1])
      IN  /\ ScaledBy(D, r, FMul(r, r), FMul(FMul(r, r), r))
          /\ D = orig_dia[1] => ScaledBy(D, F(1), F(1), F(1))
          /\ D = FMul(orig_dia[1], F(2)) => ScaledBy(D, F(2), F(4), F(8))

\* a conversion of a non-empty baseline with non-zero head to Do / 2, Do and
\* 2 * Do
C1_Witness ==
  /\ Converted
  /\ NSamples > 0
  /\ \E i \in 1..NSamples : ~FIsZero(GetCol(df_in[1], HeadName)[i])
  /\ \E k \in 1..Len(new_dias[1]) : new_dias[1][k] = orig_dia[1]
  /\ \E k \in 1..Len(new_dias[1]) : new_dias[1][k] = FMul(orig_dia[1], F(2))
  /\ \E k \in 1..Len(new_dias[1]) : FMul(new_dias[1][k], F(2)) = orig_dia[1]

NoOutput == df_out = None /\ doc = None /\ charts = 0

Finished == pc \in {"done", "idle", "stopped"}

\* the least count of target diameters, by script
RequiredDias == IF ui.variant = "app3" THEN 1 ELSE 3

\* the diameters text does not parse, or holds too few numbers
DiasRejected ==
  \/ ParseRaises(ui.new_dias_input)
  \/ Len(ParseDias(ui.new_dias_input)) < RequiredDias

\* C2: the conversion, the charts and the workbook exist only if the
\* diameters text parsed, it holds at least 3 (app_streamlit.py,
\* app_streamlit1.py) or 1 (app_streamlit3.py) numbers and the original
\* diameter is > 0; a run whose baseline was read and that fails one of these
\* checks ends stopped, with a message and with no table, chart or workbook.
C2_ValidatedBeforeOutput ==
  /\ ~NoOutput =>
       /\ ~ParseRaises(ui.new_dias_input)
       /\ new_dias = Some(ParseDias(ui.new_dias_input))
       /\ Len(new_dias[1]) >= RequiredDias
       /\ orig_dia # None
       /\ FGtZero(orig_dia[1])
  /\ pc = "stopped" => NoOutput /\ msg \in {"error", "warning"}
  /\ (Finished /\ df_in # None /\ orig_dia # None
        /\ (DiasRejected \/ ~FGtZero(orig_dia[1]))) => pc = "stopped"

\* a run of app_streamlit1.py stopped because the text holds one or two numbers
C2_Witness ==
  /\ pc = "stopped"
  /\ ui.variant = "app1"
  /\ new_dias # None
  /\ Len(new_dias[1]) \in {1, 2}
  /\ orig_dia # None
  /\ FGtZero(orig_dia[1])

\* the sheet was read by read_uploaded_excel with an address to resolve
AddressRead ==
  /\ ui.variant \in {"app", "app1"}
  /\ ui.auto_read_cell
  /\ df_in # None

\* one letter followed by one or more digits
WellFormedAddr(a) ==
  /\ Len(a) >= 2
  /\ IsAlpha(a[1])
  /\ \A i \in 2..Len(a) : IsDigit(a[i])

\* a well-formed address whose row and column lie in the sheet
InRangeAddr(a, df_raw) ==
  /\ WellFormedAddr(a)
  /\ DigitsValue(Tail(a)) >= 1
  /\ DigitsValue(Tail(a)) <= NRows(df_raw)
  /\ OrdMinusA(ToUpper(a[1])) < NCols(df_raw)

\* C3: "D1" resolves to (row 0, column 3) and "B10" to (row 9, column 1);
\* "1D", "" and every other address that is malformed or out of range
\* (row number 0 included) leave the original diameter unset and read no cell.
C3_CellAddress ==
  AddressRead =>
    /\ (ui.cell_addr = <<"D", "1">> /\ InRangeAddr(ui.cell_addr, ui.uploaded[1]))
         => orig_pos = Some(<<0, 3>>)
    /\ (ui.cell_addr = <<"B", "1", "0">> /\ InRangeAddr(ui.cell_addr, ui.uploaded[1]))
         => orig_pos = Some(<<9, 1>>)
    /\ ~InRangeAddr(ui.cell_addr, ui.uploaded[1])
         => orig_pos = None /\ orig_cell_value = None

\* the number of cells of column c from row 1 down to the first blank cell
\* or the end of the sheet
RunLength(df_raw, c) ==
  Cardinality({k \in 1..(NRows(df_raw) - 1) : \A r \in 1..k : ~IsNA(df_raw[r + 1][c + 1])})

\* sample i of the baseline is the triple of cells of sheet row i
SampleFromRow(df_raw, i) ==
  /\ GetCol(df_in[1], FlowName)[i] = CellFloat(df_raw[i + 1][1])
  /\ GetCol(df_in[1], HeadName)[i] = CellFloat(df_raw[i + 1][2])
  /\ GetCol(df_in[1], PowerName)[i] = CellFloat(df_raw[i + 1][3])

\* the baseline was read from a sheet in auto-detect mode
AutoDetectRead ==
  /\ df_in # None
  /\ ui.mode = "upload"
  /\ ui.variant \in {"app", "app1"} => ui.detect_range

\* C4: in auto-detect mode each of columns 0, 1, 2 is scanned from row 1 down
\* to its first blank cell; with n the least of the three counts the baseline
\* has exactly n samples and sample i is the triple of cells of sheet row
\* i + 1 (0-based), so the three values of a sample share one sheet row.
C4_AutoDetectRows ==
  AutoDetectRead =>
    LET df_raw == ui.uploaded[1]
        n == Min3(RunLength(df_raw, 0), RunLength(df_raw, 1), RunLength(df_raw, 2))
    IN  /\ NSamples = n
        /\ \A i \in 1..n : SampleFromRow(df_raw, i)

\* the fifteen cells of rows 1..5, columns 0..2 exist and hold numbers
FixedCellsNumeric(df_raw) ==
  /\ NRows(df_raw) >= 6
  /\ NCols(df_raw) >= 3
  /\ \A r \in 1..5, c \in 0..2 :
       /\ ~IsNA(df_raw[r + 1][c + 1])
       /\ ~CellFloatRaises(df_raw[r + 1][c + 1])

\* C5: in fixed-range mode the read returns exactly 5 samples, from sheet
\* rows 1..5 of columns 0, 1, 2; if one of those 15 cells is blank,
\* non-numeric or missing the read fails, the run stops and there is no
\* baseline.
C5_FixedRange ==
  (ui.variant \in {"app", "app1"} /\ ~ui.detect_range /\ ui.uploaded # None /\ pc # "start") =>
    IF FixedCellsNumeric(ui.uploaded[1])
    THEN /\ df_in # None
         /\ NSamples = 5
         /\ \A i \in 1..5 : SampleFromRow(ui.uploaded[1], i)
    ELSE /\ pc = "stopped"
         /\ df_in = None

\* (0.0001409 * f * h / p) * 100 of one sample
ExpectedEff(f, h, p) == FMul(Norm(1409, 100000), FDiv(FMul(f, h), p))

DCol(prefix, k) == GetCol(df_out[1], DName(prefix, new_dias[1][k]))

\* every efficiency column of the result is computed, sample by sample, from
\* the scaled flow, head and power of the same target diameter
EffFromScaled ==
  (ui.variant = "app3" /\ Converted) =>
    \A k \in 1..Len(new_dias[1]) :
      /\ Len(DCol("Efficiency_D", k)) = NSamples
      /\ \A i \in 1..NSamples :
           DCol("Efficiency_D", k)[i] =
             ExpectedEff(DCol("Flow_D", k)[i], DCol("Head_D", k)[i], DCol("Power_kW_D", k)[i])

\* the run of the end-to-end scenario: baseline [(100, 20, 5)], original
\* diameter 200, targets [100]
ExampleRun ==
  /\ ui.variant = "app3"
  /\ Converted
  /\ GetCol(df_in[1], FlowName) = <<F(100)>>
  /\ GetCol(df_in[1], HeadName) = <<F(20)>>
  /\ GetCol(df_in[1], PowerName) = <<F(5)>>
  /\ orig_dia = Some(F(200))
  /\ new_dias = Some(<<F(100)>>)

ExampleScaled ==
  /\ DCol("Flow_D", 1) = <<F(50)>>
  /\ DCol("Head_D", 1) = <<F(5)>>
  /\ DCol("Power_kW_D", 1) = <<Dec(625, 3)>>

\* C6 as stated: efficiency' is computed from the scaled values, and the
\* scenario yields flow' = 50, head' = 5, power' = 0.625 and an efficiency'
\* that is 0.5636 to four decimals.
C6_AsStated ==
  /\ EffFromScaled
  /\ ExampleRun => ExampleScaled /\ FRound(DCol("Efficiency_D", 1)[1], 4) = Dec(5636, 4)

\* C6, amended: efficiency' is computed from the scaled values, and the
\* scenario yields flow' = 50, head' = 5, power' = 0.625 and
\* efficiency' = 5.636.
C6_Efficiency ==
  /\ EffFromScaled
  /\ ExampleRun => ExampleScaled /\ DCol("Efficiency_D", 1)[1] = Dec(5636, 3)

\* the scenario has run and the workbook is built
C6_Witness == ExampleRun /\ pc = "done"

\* C7: the workbook holds one group of derived columns (one sheet, in the
\* per-diameter shape) for each entry of the target list, repeated entries
\* included, in the order of the list.
C7_OneGroupPerEntry ==
  doc # None =>
    IF ui.variant = "app1" /\ ui.export_per_sheet
    THEN /\ Len(doc[1]) = 1 + Len(new_dias[1])
         /\ \A k \in 1..Len(new_dias[1]) : doc[1][k + 1].name = DName("D", new_dias[1][k])
    ELSE LET t == doc[1][1].table
             g == IF ui.variant = "app3" THEN 4 ELSE 3
         IN  /\ Len(t) = g + g * Len(new_dias[1])
             /\ \A k \in 1..Len(new_dias[1]) :
                  /\ t[g * k + 1].name = DName("Flow_D", new_dias[1][k])
                  /\ t[g * k + 2].name = DName("Head_D", new_dias[1][k])
                  /\ t[g * k + 3].name = DName("Power_kW_D", new_dias[1][k])

\* C8: every target diameter that reaches the conversion is > 0.
C8_TargetsPositive ==
  Converted => \A k \in 1..Len(new_dias[1]) : FGtZero(new_dias[1][k])

ZeroPowerAt(i) == FIsZero(GetCol(df_in[1], PowerName)[i])

ResultsTable == doc[1][1].table

\* C9: in app_streamlit3.py a baseline sample with power = 0 gets a non-finite
\* efficiency, in the baseline table and for every target diameter; the
\* workbook holds that same value; every sample's efficiency is the formula
\* applied to that sample's own scaled values; and a run with such a sample
\* and valid diameters ends with the workbook built.
C9_ZeroPower ==
  (ui.variant = "app3" /\ df_in # None) =>
    /\ \A i \in 1..NSamples :
         ZeroPowerAt(i) => ~IsFinite(GetCol(df_in[1], <<"Efficiency_%">>)[i])
    /\ Converted =>
         \A k \in 1..Len(new_dias[1]), i \in 1..NSamples :
           LET r == FDiv(new_dias[1][k], orig_dia[1])
           IN  /\ ZeroPowerAt(i) => ~IsFinite(DCol("Efficiency_D", k)[i])
               /\ DCol("Efficiency_D", k)[i] =
                    ExpectedEff(FMul(GetCol(df_in[1], FlowName)[i], r),
                                FMul(GetCol(df_in[1], HeadName)[i], FMul(r, r)),
                                FMul(GetCol(df_in[1], PowerName)[i], FMul(FMul(r, r), r)))
    /\ doc # None =>
         \A k \in 1..Len(new_dias[1]), i \in 1..NSamples :
           ZeroPowerAt(i) =>
             GetCol(ResultsTable, DName("Efficiency_D", new_dias[1][k]))[i] = DCol("Efficiency_D", k)[i]
    /\ (Finished /\ orig_dia # None /\ FGtZero(orig_dia[1]) /\ ~DiasRejected) =>
         pc = "done" /\ doc # None

\* a finished run whose baseline has a zero-power sample with infinite
\* efficiency and another sample with finite efficiency
C9_Witness ==
  /\ ui.variant = "app3"
  /\ pc = "done"
  /\ \E i \in 1..NSamples :
       ZeroPowerAt(i) /\ GetCol(ResultsTable, DName("Efficiency_D", new_dias[1][1]))[i] = PosInf
  /\ \E i \in 1..NSamples :
       ~ZeroPowerAt(i) /\ IsFinite(GetCol(ResultsTable, DName("Efficiency_D", new_dias[1][1]))[i])

\* the decimals the workbook is rounded to
OutputDecimals == IF ui.variant = "app" THEN AppDecimals ELSE ui.decimals

\* C10: every numeric cell of every table of the workbook, the original
\* baseline columns included, is rounded to the selected number of decimals,
\* and the cells of the result table itself are not rounded.
C10_AllCellsRounded ==
  /\ doc # None =>
       \A sh \in 1..Len(doc[1]) :
         \A c \in 1..Len(doc[1][sh].table) :
           \A i \in 1..Len(doc[1][sh].table[c].vals) :
             FRound(doc[1][sh].table[c].vals[i], OutputDecimals) = doc[1][sh].table[c].vals[i]
  /\ C1_AffinityLaws

\* a run of the manual-entry mode
ManualRun == ui.variant = "app3" /\ ui.mode = "manual"

\* the triple holds exactly zero in all three fields
AllZero(t) == t[1] = F(0) /\ t[2] = F(0) /\ t[3] = F(0)

\* the form entries (1..5, in entry order) that are not all zero
KeptEntries == {i \in 1..Len(ui.manual_data) : ~AllZero(ui.manual_data[i])}

\* the j-th kept form entry in entry order
EntryOf(j) == CHOOSE i \in KeptEntries : Cardinality({m \in KeptEntries : m <= i}) = j

\* C11: in manual-entry mode the baseline holds exactly those of the 5
\* entered (flow, head, power) triples that are not all zero, in entry order:
\* a triple is dropped iff its three values are all exactly zero, and a
\* triple with a nonzero value is kept even when its power is zero.
C11_ManualRows ==
  (ManualRun /\ df_in # None) =>
    /\ Len(ui.manual_data) = manual_rows
    /\ NSamples = Cardinality(KeptEntries)
    /\ Len(GetCol(df_in[1], HeadName)) = NSamples
    /\ Len(GetCol(df_in[1], PowerName)) = NSamples
    /\ \A j \in 1..NSamples :
         /\ GetCol(df_in[1], FlowName)[j] = ui.manual_data[EntryOf(j)][1]
         /\ GetCol(df_in[1], HeadName)[j] = ui.manual_data[EntryOf(j)][2]
         /\ GetCol(df_in[1], PowerName)[j] = ui.manual_data[EntryOf(j)][3]

\* a submitted form with an all-zero triple entered between two kept ones,
\* one kept triple having power zero and one a negative flow
C11_Witness ==
  /\ ManualRun
  /\ df_in # None
  /\ \E a, z, b \in 1..manual_rows :
       /\ a < z /\ z < b
       /\ AllZero(ui.manual_data[z])
       /\ ~AllZero(ui.manual_data[a]) /\ ~AllZero(ui.manual_data[b])
  /\ \E i \in KeptEntries : ui.manual_data[i][3] = F(0)
  /\ \E j \in 1..NSamples : GetCol(df_in[1], PowerName)[j] = F(0)
  /\ \E j \in 1..NSamples : GetCol(df_in[1], FlowName)[j][1] < 0
  /\ NSamples < manual_rows

====
